---- MODULE Spec2Model ----
(***************************************************************************)
(* Model of the cross-platform forwarding pipeline of koishi-forward       *)
(* (src/src/core.ts): rule resolution, the message-created listener with   *)
(* its blocking-word filter, quote lookup, content transform, moderation   *)
(* call, sequential fan-out and the batch upsert of the relay records.     *)
(*                                                                         *)
(* A JavaScript string is modelled as a sequence of tokens; the empty      *)
(* string (and an absent, falsy attribute) is the empty sequence.          *)
(* One action is the code that runs between two awaits.                    *)
(*                                                                         *)
(* Of the collaborators, bot.sendMessage and the moderation call may fail; *)
(* getMessage, database.get and database.upsert always return.  Under Spec *)
(* a message is delivered once the listener has settled for the one        *)
(* before; Receive itself allows invocations to overlap.                   *)
(***************************************************************************)
EXTENDS Integers, Sequences, FiniteSets, TLC

\* ------------------------------------------------------------------ bounds
\* Inbound messages handled in one behaviour.
MaxMsgs == 2
\* Slots for listener invocations.
MaxProcs == 2
\* Message ids one sendMessage call may return.
MaxIds == 2

\* ------------------------------------------------------------- strings
Blank == {" ", "\n"}

\* String.prototype.trim() leaves nothing.
IsBlank(s) == \A i \in 1..Len(s) : s[i] \in Blank

\* a || b on strings
Or(a, b) == IF a # <<>> THEN a ELSE b

RECURSIVE Concat(_)
\* Array.prototype.join('') / flattening a list of lists
Concat(ss) == IF ss = <<>> THEN <<>> ELSE Head(ss) \o Concat(Tail(ss))

\* new RegExp(pattern).test(content): the pattern occurs in the content
RegTest(pattern, content) == \E i \in 1..Len(content) : content[i] = pattern

\* ------------------------------------------------------------ elements
Text(c) == [type |-> "text", content |-> c]
Image == [type |-> "image"]
At(id, name) == [type |-> "at", id |-> id, name |-> name]
Face(name) == [type |-> "face", name |-> name]
Audio == [type |-> "audio"]
Video == [type |-> "video"]
Quote(id) == [type |-> "quote", id |-> id]
Author(name, avatar) == [type |-> "author", name |-> name, avatar |-> avatar]

\* ------------------------------------------------------- configuration
\* config.constants: the named endpoint definitions.
Constants ==
  [ A |-> [platform |-> "discord", selfId |-> "1", channelId |-> "ca",
           blockingWords |-> <<"bad", "spam">>, onlyQuote |-> FALSE,
           name |-> <<"DC">>, disabled |-> FALSE, simulateOriginal |-> TRUE],
    B |-> [platform |-> "onebot", selfId |-> "2", channelId |-> "cb",
           blockingWords |-> <<>>, onlyQuote |-> TRUE,
           name |-> <<>>, disabled |-> FALSE, simulateOriginal |-> FALSE],
    C |-> [platform |-> "telegram", selfId |-> "3", channelId |-> "cc",
           blockingWords |-> <<>>, onlyQuote |-> FALSE,
           name |-> <<"TG">>, disabled |-> FALSE, simulateOriginal |-> TRUE],
    D |-> [platform |-> "onebot", selfId |-> "2", channelId |-> "cd",
           blockingWords |-> <<>>, onlyQuote |-> FALSE,
           name |-> <<>>, disabled |-> TRUE, simulateOriginal |-> FALSE] ]

\* config.rules: "X" names no endpoint.
Rules ==
  << [source |-> "A", targets |-> <<"B", "D", "X", "C">>],
     [source |-> "B", targets |-> <<"A", "C">>],
     [source |-> "X", targets |-> <<"A">>],
     [source |-> "C", targets |-> <<"D", "X">>],
     [source |-> "C", targets |-> <<"A">>] >>

\* config.delay: per-platform pacing delay in ms.
ConfigDelay == [discord |-> 500]

DefaultDelay == 200

CensorTimeout == 500

\* `${platform}:${selfId}`
Sid(platform, selfId) == <<platform, selfId>>

\* IsTarget, without the test of the disabled flag.
IsTargetDefined(key) == key \in DOMAIN Constants

\* Line 84: the target key names an endpoint that is not disabled.
IsTarget(key) == key \in DOMAIN Constants /\ ~Constants[key].disabled

\* targetConfigs of a rule: its defined, non-disabled targets, in order.
TargetConfigs(rule) ==
  LET keep == SelectSeq(rule.targets, IsTarget)
  IN  [i \in 1..Len(keep) |-> Constants[keep[i]]]

\* The rules for which apply() registers a listener.
Listeners ==
  { r \in 1..Len(Rules) :
      /\ Rules[r].source \in DOMAIN Constants
      /\ TargetConfigs(Rules[r]) # <<>> }

SConfig(r) == Constants[Rules[r].source]

\* ctx.platform(..).self(..).channel(..): the events a listener receives.
Listened(r, ev) ==
  /\ ev.platform = SConfig(r).platform
  /\ SConfig(r).selfId # "*" => ev.selfId = SConfig(r).selfId
  /\ SConfig(r).channelId # "*" => ev.channel = SConfig(r).channelId

\* ------------------------------------------------------------ transform
\* The default visitors of transform(); each yields a list of 0 or 1 nodes.
DefaultAt(attrs) == <<Text(<<"@">> \o Or(attrs.name, <<attrs.id>>))>>

\* The at visitor the listener passes for the message body.
ListenerAt(attrs, onlyQuote, selfId) ==
  IF onlyQuote /\ attrs.id = selfId
    THEN <<Text(<<>>)>>
    ELSE <<Text(<<"@">> \o Or(attrs.name, <<attrs.id>>))>>

\* No extra rules, and the rules the listener passes for the body: its at
\* visitor, which reads sConfig.onlyQuote and event.selfId.
NoRules == [at |-> FALSE]

ListenerRules(onlyQuote, selfId) ==
  [at |-> TRUE, onlyQuote |-> onlyQuote, selfId |-> selfId]

\* One node through the visitors; a visitor in rules replaces the default.
Visit(node, rules) ==
  CASE node.type = "image" -> <<>>
    [] node.type = "at" ->
         IF rules.at
           THEN ListenerAt(node, rules.onlyQuote, rules.selfId)
           ELSE DefaultAt(node)
    [] node.type = "face" -> <<Text(<<"[">> \o Or(node.name, <<"face">>) \o <<"]">>)>>
    [] node.type = "audio" -> <<Text(<<"[audio]">>)>>
    [] OTHER -> <<node>>

transform(source, rules) ==
  Concat([i \in 1..Len(source) |-> Visit(source[i], rules)])

\* node => node.type === 'text' ? node.attrs.content : '', joined
PlainText(nodes) ==
  Concat([i \in 1..Len(nodes) |->
            IF nodes[i].type = "text" THEN nodes[i].content ELSE <<>>])

\* The text nodes appended for the embeds of a Discord event.
EmbedNodes(embeds) ==
  LET buffer(e) == (IF e.title # <<>> THEN <<e.title>> ELSE <<>>)
                   \o (IF e.description # <<>> THEN <<e.description>> ELSE <<>>)
      joined(b) == IF Len(b) = 2 THEN b[1] \o <<"\n">> \o b[2] ELSE b[1]
      node(e) == IF buffer(e) # <<>> THEN <<Text(joined(buffer(e)))>> ELSE <<>>
  IN  Concat([i \in 1..Len(embeds) |-> node(embeds[i])])

\* filteredElements of the listener, embeds included.
FilteredElements(ev, sConfig) ==
  transform(ev.elements, ListenerRules(sConfig.onlyQuote, ev.selfId))
    \o (IF ev.platform = "discord" THEN EmbedNodes(ev.embeds) ELSE <<>>)

\* Blocked, testing the first element of the message only.
BlockedFirstOnly(ev, sConfig) ==
  \E k \in 1..Len(sConfig.blockingWords) :
    /\ ev.elements[1].type = "text"
    /\ RegTest(sConfig.blockingWords[k], ev.elements[1].content)

\* Some text element of the message matches some blocking word.
Blocked(ev, sConfig) ==
  \E k \in 1..Len(sConfig.blockingWords) :
    \E i \in 1..Len(ev.elements) :
      /\ ev.elements[i].type = "text"
      /\ RegTest(sConfig.blockingWords[k], ev.elements[i].content)

\* ---------------------------------------------------------- identifiers
\* The id the source platform gave the n-th inbound message.
InboundId(n) == <<"m", n>>

\* The k-th id the target platform returns for the send to targetConfigs[index]
\* of the n-th pipeline: every platform message id is unique.
SentId(n, index, k) == <<"s", n, index, k>>

\* A message that was never relayed.
OldId == <<"old">>

UserId == "u1"

\* session.username
Username == <<"bob">>

UserAvatar == "avatar-url"

DefaultAvatar == "https://discord.com/assets/5d6a5e9d7d77ac29116e.png"

NoUser == [id |-> "undefined", nick |-> <<>>, name |-> <<>>]

NoQuote == [id |-> <<"none">>]

NoEvent == [id |-> <<"none">>]

\* ------------------------------------------------------------- state
Procs == 1..MaxProcs

\* What ctx.bots[targetSid] can be when the loop reads it: no such bot, a bot
\* that is not online, an online bot.
Status == {"absent", "offline", "online"}

\* ctx.bots as the loop of rule r may find it when it goes on from
\* targetConfigs[index]: the entries of the targets still to come. The registry
\* belongs to the framework and changes at any time, so every read is an input.
Bots(r, index) ==
  LET t == TargetConfigs(Rules[r])
  IN  [{ Sid(t[i].platform, t[i].selfId) : i \in (index + 1)..Len(t) } -> Status]

VARIABLES
  table,    \* the rows of myrtus_forward_sent, in insertion order
  started,  \* inbound messages delivered to a listener so far
  run       \* run[p]: the locals of the listener invocation in slot p

vars == <<table, started, run>>

Idle ==
  [pc |-> "idle", n |-> 0, rule |-> 0, event |-> NoEvent, quoteUser |-> NoUser,
   rows |-> <<>>, plainText |-> <<>>, finalText |-> <<>>, timer |-> "none",
   censor |-> "none", index |-> 0, sentRows |-> <<>>, trace |-> <<>>]

Settled == {"idle", "done", "dropped", "thrown"}

Init ==
  /\ table = <<>>
  /\ started = 0
  /\ run = [p \in Procs |-> Idle]

\* --------------------------------------------------- the listener's code
Log(l, entry) == [l EXCEPT !.trace = Append(@, entry)]

HasQuote(ev) == ev.quote # NoQuote

Targets(l) == TargetConfigs(Rules[l.rule])

TargetSid(target) == Sid(target.platform, target.selfId)

\* event.selfId === quoteUser.id
BotQuoted(l) == l.event.selfId = l.quoteUser.id

\* Prepare, testing the text without trimming it.
PrepareNoTrim(l) ==
  LET plain == PlainText(FilteredElements(l.event, SConfig(l.rule)))
  IN  IF plain = <<>>
        THEN [l EXCEPT !.pc = "dropped"]
        ELSE Log([l EXCEPT !.pc = "fetch", !.plainText = plain,
                           !.finalText = plain, !.timer = "pending"],
                 [e |-> "censor", context |-> plain, timeout |-> CensorTimeout])

\* Lines 141-174 and 177-194: transform, flatten, drop an empty text, else
\* start the censor request and its 500 ms timer.
Prepare(l) ==
  LET plain == PlainText(FilteredElements(l.event, SConfig(l.rule)))
  IN  IF IsBlank(plain)
        THEN [l EXCEPT !.pc = "dropped"]
        ELSE Log([l EXCEPT !.pc = "fetch", !.plainText = plain,
                           !.finalText = plain, !.timer = "pending"],
                 [e |-> "censor", context |-> plain, timeout |-> CensorTimeout])

\* Lines 112-132: choose the lookup by the quoted author, or drop the message.
Classify(l) ==
  IF BotQuoted(l)
    THEN Log([l EXCEPT !.pc = "dbget"], [e |-> "get", by |-> "to"])
    ELSE IF SConfig(l.rule).onlyQuote
           THEN [l EXCEPT !.pc = "dropped"]
           ELSE Log([l EXCEPT !.pc = "dbget"], [e |-> "get", by |-> "from"])

\* Lines 95-110 and 136-139: the listener up to its first await.
Start(l) ==
  IF Blocked(l.event, SConfig(l.rule))
    THEN [l EXCEPT !.pc = "dropped"]
    ELSE IF HasQuote(l.event)
           THEN IF l.event.quote.hasUser
                  THEN Classify([l EXCEPT !.quoteUser = l.event.quote.user])
                  ELSE Log([l EXCEPT !.pc = "getMessage"], [e |-> "getMessage"])
           ELSE IF SConfig(l.rule).onlyQuote
                  THEN [l EXCEPT !.pc = "dropped"]
                  ELSE Prepare(l)

\* DatabaseGet, with the two filters exchanged.
DatabaseGetExchanged(l, tbl) ==
  LET sid == Sid(l.event.platform, l.event.selfId)
      hit(row) == IF BotQuoted(l)
                    THEN /\ row.from = l.event.quote.id
                         /\ row.from_sid = sid
                         /\ row.from_channel_id = l.event.channel
                    ELSE /\ row.to = l.event.quote.id
                         /\ row.to_sid = sid
                         /\ row.to_channel_id = l.event.channel
  IN  SelectSeq(tbl, hit)

\* ctx.database.get with the filter of line 114 or line 127.
DatabaseGet(l, tbl) ==
  LET sid == Sid(l.event.platform, l.event.selfId)
      hit(row) == IF BotQuoted(l)
                    THEN /\ row.to = l.event.quote.id
                         /\ row.to_sid = sid
                         /\ row.to_channel_id = l.event.channel
                    ELSE /\ row.from = l.event.quote.id
                         /\ row.from_sid = sid
                         /\ row.from_channel_id = l.event.channel
  IN  SelectSeq(tbl, hit)

\* AfterGet, without the quote-only drop.
AfterGetKeep(l, found) == Prepare([l EXCEPT !.rows = found])

\* Lines 119-121 after the lookup returns, then on to the transform.
AfterGet(l, found) ==
  IF BotQuoted(l) /\ SConfig(l.rule).onlyQuote /\ found = <<>>
    THEN [l EXCEPT !.pc = "dropped", !.rows = found]
    ELSE Prepare([l EXCEPT !.rows = found])

\* Lines 226-242: the prefix of the payload.
Prefix(l, target) ==
  LET sConfig == SConfig(l.rule)
  IN  IF target.simulateOriginal /\ target.platform = "discord"
        THEN Author(<<"[">> \o sConfig.name \o <<"] ">> \o Username,
                    IF l.event.platform = "telegram" THEN DefaultAvatar ELSE UserAvatar)
        ELSE Text(<<"[">>
                  \o (IF sConfig.name # <<>> THEN sConfig.name \o <<" - ">> ELSE <<>>)
                  \o Username \o <<"]\n">>)

\* FindRow, taking the first row found whatever target it belongs to.
FindRowAnyTarget(l, target) == IF l.rows = <<>> THEN 0 ELSE 1

\* rows.find(..): the index of the first row for this target, or 0.
FindRow(l, target) ==
  LET match(row) == IF BotQuoted(l)
                      THEN /\ row.from_sid = TargetSid(target)
                           /\ row.from_channel_id = target.channelId
                      ELSE /\ row.to_sid = TargetSid(target)
                           /\ row.to_channel_id = target.channelId
      hits == { i \in 1..Len(l.rows) : match(l.rows[i]) }
  IN  IF hits = {} THEN 0 ELSE CHOOSE i \in hits : \A j \in hits : i <= j

\* QuoteId, taking the other end of the row.
QuoteIdOtherEnd(l, target) ==
  LET i == FindRow(l, target)
  IN  IF i = 0 THEN <<>>
      ELSE IF BotQuoted(l) THEN l.rows[i].to ELSE l.rows[i].from

\* quoteId of lines 258-278; <<>> stands for undefined.
QuoteId(l, target) ==
  LET i == FindRow(l, target)
  IN  IF i = 0 THEN <<>>
      ELSE IF BotQuoted(l) THEN l.rows[i].from ELSE l.rows[i].to

\* Line 290 reads qUser.nick of an absent quote.user unless member.nick is set.
NameThrows(quote) == quote.nick = <<>> /\ ~quote.hasUser

\* member?.nick || qUser.nick || qUser.name
QuoteName(quote) == Or(quote.nick, Or(quote.user.nick, quote.user.name))

\* Lines 291-295: the textual rendering of the quoted message.
Fallback(quote) ==
  <<Text(<<"Re ">> \o QuoteName(quote) \o <<" [">>)>>
    \o transform(quote.elements, NoRules)
    \o <<Text(<<"]\n">>)>>

\* Lines 250-297: the payload for one target.
Payload(l, target) ==
  LET prefix == Prefix(l, target)
      quoteId == QuoteId(l, target)
  IN  IF ~HasQuote(l.event)
        THEN <<prefix, Text(l.finalText)>>
        ELSE IF quoteId # <<>>
               THEN IF prefix.type = "author"
                      THEN <<prefix, Quote(quoteId), Text(l.finalText)>>
                      ELSE <<Quote(quoteId), prefix, Text(l.finalText)>>
               ELSE Fallback(l.event.quote) \o <<prefix, Text(l.finalText)>>

\* Lines 250-301 after the pacing delay: build the payload and call
\* bot.sendMessage, or throw out of the listener at line 290. status is the
\* status the bot has when sendMessage is called.
Dispatch(l, index, status) ==
  LET target == Targets(l)[index + 1]
  IN  IF HasQuote(l.event) /\ QuoteId(l, target) = <<>> /\ NameThrows(l.event.quote)
        THEN [l EXCEPT !.pc = "thrown", !.index = index]
        ELSE Log([l EXCEPT !.pc = "send", !.index = index],
                 [e |-> "send", index |-> index, online |-> status = "online",
                  payload |-> Payload(l, target)])

\* config.delay[target.platform] ?? 200
Delay(target) ==
  IF target.platform \in DOMAIN ConfigDelay
    THEN ConfigDelay[target.platform] ELSE DefaultDelay

\* Should the loop pause before the send to targetConfigs[index]?
Paced(index) == index # 0

RECURSIVE FanOut(_, _, _)
\* Lines 211-248 and 318-321: the loop from targetConfigs[index] up to the next
\* await: skip the targets whose bot is missing or not online, then for the
\* first one found online sleep or send; after the last target start the
\* upsert if any row was staged.
FanOut(l, index, live) ==
  IF index >= Len(Targets(l))
    THEN IF l.sentRows # <<>>
           THEN Log([l EXCEPT !.pc = "upsert", !.index = index], [e |-> "upsert"])
           ELSE [l EXCEPT !.pc = "done", !.index = index]
    ELSE LET target == Targets(l)[index + 1]
             bot == live[TargetSid(target)]
         IN  IF bot = "absent"
               THEN FanOut(Log(l, [e |-> "skip", index |-> index]), index + 1, live)
             ELSE IF bot # "online"
               THEN FanOut(Log(l, [e |-> "skip", index |-> index]), index + 1, live)
               ELSE LET m == Log(l, [e |-> "found", index |-> index])
                    IN  IF Paced(index)
                          THEN Log([m EXCEPT !.pc = "sleep", !.index = index],
                                   [e |-> "sleep", index |-> index,
                                    ms |-> Delay(target)])
                          ELSE Dispatch(m, index, bot)

\* Staged, pushing the row of every returned id twice.
StagedTwice(l, count) ==
  LET target == Targets(l)[l.index + 1]
      row(k) ==
        [from |-> l.event.id,
         from_sid |-> Sid(l.event.platform, l.event.selfId),
         to |-> SentId(l.n, l.index, k),
         to_sid |-> TargetSid(target),
         from_channel_id |-> l.event.channel,
         to_channel_id |-> target.channelId]
  IN  [k \in 1..(2 * count) |-> row((k + 1) \div 2)]

\* Lines 302-312: one staged row per returned message id (the time column,
\* which no code reads, is left out).
Staged(l, count) ==
  LET target == Targets(l)[l.index + 1]
  IN  [k \in 1..count |->
         [from |-> l.event.id,
          from_sid |-> Sid(l.event.platform, l.event.selfId),
          to |-> SentId(l.n, l.index, k),
          to_sid |-> TargetSid(target),
          from_channel_id |-> l.event.channel,
          to_channel_id |-> target.channelId]]

\* ctx.database.upsert on the auto-increment table: rows without an id are
\* inserted with the next ids.
Upsert(tbl, newRows) ==
  tbl \o [k \in 1..Len(newRows) |-> newRows[k] @@ [id |-> Len(tbl) + k]]

\* ------------------------------------------------------------- inputs
\* The message bodies the environment sends.
RichBody(selfId) ==
  <<Image, At(selfId, <<>>), Face(<<>>), Audio, Video, Text(<<"hi">>)>>

ImageOnly == <<Image>>

BadBody == <<Image, Text(<<"x", "bad">>)>>

BlankBody == <<Image, Text(<<" ", "\n">>)>>

NoEmbeds == <<>>

OneEmbed == <<[title |-> <<"T">>, description |-> <<"D">>]>>

\* event.message.elements with session.event._data.d.embeds, which only a
\* Discord event carries.
Contents(platform, selfId) ==
  { <<RichBody(selfId), NoEmbeds>>, <<ImageOnly, NoEmbeds>>,
    <<BadBody, NoEmbeds>>, <<BlankBody, NoEmbeds>> }
  \cup (IF platform = "discord" THEN { <<ImageOnly, OneEmbed>> } ELSE {})

QuotedElements == <<Image, At("u2", <<>>), Text(<<"q">>)>>

\* The rows written or staged so far: the messages that exist on the platforms.
Known(tbl, r) ==
  { tbl[i] : i \in 1..Len(tbl) }
    \cup UNION { { r[p].sentRows[i] : i \in 1..Len(r[p].sentRows) } : p \in Procs }

\* The ids a reply in (sid, channel) can quote, each with its true author: a
\* message the bot relayed into the channel, a user's message relayed out of
\* it, or a message that was never relayed.
Quotable(tbl, r, sid, channel) ==
  { <<row.to, sid[2]>> :
      row \in { k \in Known(tbl, r) : k.to_sid = sid /\ k.to_channel_id = channel } }
  \cup { <<row.from, UserId>> :
      row \in { k \in Known(tbl, r) : k.from_sid = sid /\ k.from_channel_id = channel } }
  \cup { <<OldId, sid[2]>>, <<OldId, UserId>> }

\* event.message.quote: the author is carried on the event, or only the
\* member nick is, or neither.
Quotes(tbl, r, sid, channel) ==
  { NoQuote }
  \cup { [id |-> q[1], author |-> q[2], hasUser |-> shape = "user",
          user |-> IF shape = "user"
                     THEN [id |-> q[2], nick |-> <<>>, name |-> <<q[2]>>]
                     ELSE NoUser,
          nick |-> IF shape = "member" THEN <<"nick">> ELSE <<>>,
          elements |-> QuotedElements] :
         q \in Quotable(tbl, r, sid, channel), shape \in {"user", "member", "bare"} }

\* The events the n-th inbound message can be for the listener of rule r.
Events(tbl, r, n, rule) ==
  LET s == SConfig(rule)
  IN  { [platform |-> s.platform, selfId |-> s.selfId, channel |-> s.channelId,
         id |-> InboundId(n), elements |-> c[1], embeds |-> c[2], quote |-> q] :
        c \in Contents(s.platform, s.selfId),
        q \in Quotes(tbl, r, Sid(s.platform, s.selfId), s.channelId) }

\* The parsed body of the censor service's response; null when it is not JSON.
CensorData ==
  { [type |-> "null"],
    [type |-> "object", context |-> [type |-> "undefined"]],
    [type |-> "object", context |-> [type |-> "string", value |-> <<"***">>]] }

\* Censored, taking data.context whatever its type: a missing field
\* leaves no text.
CensoredUnchecked(plain, data) ==
  IF data.type = "null" THEN plain
  ELSE IF data.context.type = "string" THEN data.context.value ELSE <<>>

\* Lines 199-201.
Censored(plain, data) ==
  IF data.type # "null" /\ data.context.type = "string"
    THEN data.context.value
    ELSE plain

DataKind(data) ==
  IF data.type = "null" THEN "malformed"
  ELSE IF data.context.type = "string" THEN "replaced" ELSE "nofield"

\* ------------------------------------------------------------- actions
Set(p, l) == run' = [run EXCEPT ![p] = l]

\* A message-created event reaches the listener of rule r (line 94), which
\* runs in the lowest free slot.
Receive(p, r, ev) ==
  /\ started < MaxMsgs
  /\ run[p].pc \in Settled
  /\ \A q \in Procs : q < p => run[q].pc \notin Settled
  /\ r \in Listeners
  /\ Listened(r, ev)
  /\ Set(p, Start([Idle EXCEPT !.n = started + 1, !.rule = r, !.event = ev]))
  /\ started' = started + 1
  /\ UNCHANGED table

\* The next message arrives once the listener has settled for the one before.
Arrive(p, r) ==
  /\ started < MaxMsgs
  /\ \A q \in Procs : run[q].pc \in Settled
  /\ r \in Listeners
  /\ \E ev \in Events(table, run, started + 1, r) : Receive(p, r, ev)

\* session.bot.getMessage returns the quoted message (line 110).
GetMessageReturn(p) ==
  /\ run[p].pc = "getMessage"
  /\ LET author == run[p].event.quote.author
     IN  Set(p, Classify([run[p] EXCEPT
               !.quoteUser = [id |-> author, nick |-> <<>>, name |-> <<author>>]]))
  /\ UNCHANGED <<table, started>>

\* ctx.database.get returns (lines 114 and 127).
GetReturn(p) ==
  /\ run[p].pc = "dbget"
  /\ Set(p, AfterGet(run[p], DatabaseGet(run[p], table)))
  /\ UNCHANGED <<table, started>>

\* fetch resolves with a response: the timer is cleared (line 195); a 2xx
\* response goes on to response.json(), any other status to the fan-out.
FetchResolve(p, ok) ==
  /\ run[p].pc = "fetch"
  /\ IF ok
       THEN Set(p, [run[p] EXCEPT !.pc = "body", !.timer = "cleared"])
       ELSE \E live \in Bots(run[p].rule, 0) :
              Set(p, FanOut([run[p] EXCEPT !.timer = "cleared", !.censor = "status"],
                            0, live))
  /\ UNCHANGED <<table, started>>

\* fetch rejects (connection failure): the catch of line 203.
FetchReject(p) ==
  /\ run[p].pc = "fetch"
  /\ \E live \in Bots(run[p].rule, 0) :
       Set(p, FanOut([run[p] EXCEPT !.censor = "network"], 0, live))
  /\ UNCHANGED <<table, started>>

\* The 500 ms timer fires: controller.abort() rejects a pending fetch.
TimerFire(p) ==
  /\ run[p].timer = "pending"
  /\ IF run[p].pc = "fetch"
       THEN \E live \in Bots(run[p].rule, 0) :
              Set(p, FanOut([run[p] EXCEPT !.timer = "fired", !.censor = "timeout"],
                            0, live))
       ELSE Set(p, [run[p] EXCEPT !.timer = "fired"])
  /\ UNCHANGED <<table, started>>

\* response.json() settles (lines 198-201).
BodyReturn(p, data) ==
  /\ run[p].pc = "body"
  /\ \E live \in Bots(run[p].rule, 0) :
       Set(p, FanOut([run[p] EXCEPT !.finalText = Censored(run[p].plainText, data),
                                    !.censor = DataKind(data)],
                     0, live))
  /\ UNCHANGED <<table, started>>

\* ctx.sleep returns (line 247); the bot found before the sleep is used
\* whatever its status has become.
SleepReturn(p, status) ==
  /\ run[p].pc = "sleep"
  /\ Set(p, Dispatch(run[p], run[p].index, status))
  /\ UNCHANGED <<table, started>>

\* bot.sendMessage returns count message ids (lines 301-312).
SendReturn(p, count) ==
  /\ run[p].pc = "send"
  /\ LET l == Log([run[p] EXCEPT !.sentRows = @ \o Staged(run[p], count)],
                  [e |-> "sent", index |-> run[p].index, count |-> count])
     IN  \E live \in Bots(l.rule, l.index + 1) : Set(p, FanOut(l, l.index + 1, live))
  /\ UNCHANGED <<table, started>>

\* bot.sendMessage raises (lines 313-315).
SendRaise(p) ==
  /\ run[p].pc = "send"
  /\ LET l == Log(run[p], [e |-> "raise", index |-> run[p].index])
     IN  \E live \in Bots(l.rule, l.index + 1) : Set(p, FanOut(l, l.index + 1, live))
  /\ UNCHANGED <<table, started>>

\* ctx.database.upsert returns (line 320).
UpsertReturn(p) ==
  /\ run[p].pc = "upsert"
  /\ table' = Upsert(table, run[p].sentRows)
  /\ Set(p, [run[p] EXCEPT !.pc = "done"])
  /\ UNCHANGED started

Next ==
  \/ \E p \in Procs, r \in 1..Len(Rules) : Arrive(p, r)
  \/ \E p \in Procs : GetMessageReturn(p)
  \/ \E p \in Procs : GetReturn(p)
  \/ \E p \in Procs, ok \in BOOLEAN : FetchResolve(p, ok)
  \/ \E p \in Procs : FetchReject(p)
  \/ \E p \in Procs : TimerFire(p)
  \/ \E p \in Procs, data \in CensorData : BodyReturn(p, data)
  \/ \E p \in Procs, status \in Status : SleepReturn(p, status)
  \/ \E p \in Procs, count \in 0..MaxIds : SendReturn(p, count)
  \/ \E p \in Procs : SendRaise(p)
  \/ \E p \in Procs : UpsertReturn(p)

Spec == Init /\ [][Next]_vars

\* ------------------------------------------- overlapping invocations
\* The listener is async (line 94): an event that arrives while an earlier
\* invocation is suspended at an await starts its own invocation. The events
\* delivered that way here: the rich body, alone or as a reply to a message
\* that was relayed, with or without the quoted author on the event.
Overlapping(tbl, r, n, rule) ==
  { ev \in Events(tbl, r, n, rule) :
      /\ ev.elements = RichBody(ev.selfId)
      /\ ev.embeds = NoEmbeds
      /\ HasQuote(ev) => (ev.quote.id # OldId /\ ev.quote.nick = <<>>) }

\* A message-created event arrives, whatever the earlier invocations are doing.
Deliver(p, r) ==
  /\ started < MaxMsgs
  /\ run[p].pc \in Settled
  /\ r \in Listeners
  /\ \E ev \in Overlapping(table, run, started + 1, r) : Receive(p, r, ev)

NextInterleaved ==
  \/ \E p \in Procs, r \in 1..Len(Rules) : Deliver(p, r)
  \/ \E p \in Procs : GetMessageReturn(p)
  \/ \E p \in Procs : GetReturn(p)
  \/ \E p \in Procs, ok \in BOOLEAN : FetchResolve(p, ok)
  \/ \E p \in Procs : FetchReject(p)
  \/ \E p \in Procs : TimerFire(p)
  \/ \E p \in Procs, data \in CensorData : BodyReturn(p, data)
  \/ \E p \in Procs, status \in Status : SleepReturn(p, status)
  \/ \E p \in Procs, count \in 0..MaxIds : SendReturn(p, count)
  \/ \E p \in Procs : SendRaise(p)
  \/ \E p \in Procs : UpsertReturn(p)

Interleaved == Init /\ [][NextInterleaved]_vars

\* ------------------------------------------------------------- claims
\* What the trace of a listener invocation shows.
Entries(p, kind) == { i \in 1..Len(run[p].trace) : run[p].trace[i].e = kind }

IndexesOf(p, kind) == { run[p].trace[i].index : i \in Entries(p, kind) }

TargetAt(p, i) == Targets(run[p])[run[p].trace[i].index + 1]

EventSid(p) == Sid(run[p].event.platform, run[p].event.selfId)

\* The message ids a payload quotes structurally.
QuoteRefs(payload) ==
  { payload[j].id : j \in { k \in 1..Len(payload) : payload[k].type = "quote" } }

\* The payload opens with the textual rendering "Re <name> [ ... ]".
HasFallback(payload) ==
  /\ payload[1].type = "text"
  /\ payload[1].content # <<>>
  /\ payload[1].content[1] = "Re "

\* No row of the table comes from the n-th inbound message.
NoRecordOf(n) == \A k \in 1..Len(table) : table[k].from # InboundId(n)

\* Row k of the table maps a message of the target of send i to the message
\* that the reply handled in slot p quotes, the quoted author being the bot.
RoundTripRow(p, i, k) ==
  /\ HasQuote(run[p].event)
  /\ run[p].event.quote.author = run[p].event.selfId
  /\ table[k].to = run[p].event.quote.id
  /\ table[k].to_sid = EventSid(p)
  /\ table[k].to_channel_id = run[p].event.channel
  /\ table[k].from_sid = TargetSid(TargetAt(p, i))
  /\ table[k].from_channel_id = TargetAt(p, i).channelId

\* C1: round-trip correlation. When the table maps source message m1 (instance
\* s1, channel c1) to target message t1 (s2, c2), every send that a reply on
\* s2/c2 quoting the bot's t1 issues to a target s1/c1 carries a structural
\* quote of m1 and no textual fallback.
C1_RoundTrip ==
  \A p \in Procs : \A i \in Entries(p, "send") : \A k \in 1..Len(table) :
    RoundTripRow(p, i, k) =>
      /\ QuoteRefs(run[p].trace[i].payload) = { table[k].from }
      /\ ~HasFallback(run[p].trace[i].payload)

\* A reply quoting a relayed message has been sent back to the channel the
\* message came from, whose record is in the table.
C1_Witness ==
  \E p \in Procs : \E i \in Entries(p, "send") : \E k \in 1..Len(table) :
    /\ RoundTripRow(p, i, k)
    /\ table[k].from \in QuoteRefs(run[p].trace[i].payload)

\* Some text element of the event holds one of the source's blocking words.
HitsBlockingWord(ev, words) ==
  \E i \in 1..Len(ev.elements) : \E k \in 1..Len(words) :
    /\ ev.elements[i].type = "text"
    /\ \E j \in 1..Len(ev.elements[i].content) : ev.elements[i].content[j] = words[k]

\* C2: a message in which some text element matches a blocking word of the
\* source causes no lookup, no moderation call, no send and no record,
\* whatever it quotes.
C2_BlockedIsSilent ==
  \A p \in Procs :
    (run[p].pc # "idle"
       /\ HitsBlockingWord(run[p].event, SConfig(run[p].rule).blockingWords)) =>
      /\ run[p].pc = "dropped"
      /\ run[p].trace = <<>>
      /\ run[p].sentRows = <<>>
      /\ NoRecordOf(run[p].n)

\* A reply that holds a blocking word was dropped.
C2_Witness ==
  \E p \in Procs :
    /\ run[p].pc = "dropped"
    /\ HasQuote(run[p].event)
    /\ HitsBlockingWord(run[p].event, SConfig(run[p].rule).blockingWords)

\* The outcomes of the censor call that are not a replacement text.
Failed == {"network", "timeout", "status", "malformed", "nofield"}

\* The flattened text of the inbound message before moderation.
FlatText(p) == PlainText(FilteredElements(run[p].event, SConfig(run[p].rule)))

\* The targets the loop has looked at.
Examined(p) == IndexesOf(p, "skip") \cup IndexesOf(p, "found")

AllTargets(p) == 0..(Len(Targets(run[p])) - 1)

\* Line 290 is the one place where the listener throws.
ThrowsAtName(p) ==
  /\ HasQuote(run[p].event)
  /\ ~run[p].event.quote.hasUser
  /\ run[p].event.quote.nick = <<>>

C4_TimerGuardsEveryWait ==
  \A p \in Procs : run[p].pc \in {"fetch", "body"} => run[p].timer = "pending"

\* C5: the sends of one invocation go, in rule order and one at a time, to
\* exactly the targets found online; once the listener has settled every
\* target has been looked at and every target found online has been sent to.
C5_SendsFollowAvailability ==
  \A p \in Procs :
    /\ \A i, j \in Entries(p, "send") :
         i < j => /\ run[p].trace[i].index < run[p].trace[j].index
                  /\ \E m \in Entries(p, "sent") \cup Entries(p, "raise") :
                       i < m /\ m < j
    /\ IndexesOf(p, "send") \subseteq IndexesOf(p, "found")
    /\ IndexesOf(p, "skip") \cap IndexesOf(p, "found") = {}
    /\ (run[p].pc \in {"done", "thrown"} /\ Entries(p, "censor") # {}) =>
         /\ Examined(p) = AllTargets(p)
         /\ IndexesOf(p, "found") \subseteq IndexesOf(p, "send")

\* C6: no pacing delay precedes the first send an invocation issues, and
\* exactly one delay, of the target platform's value, lies between two
\* consecutive sends.
C6_Pacing ==
  \A p \in Procs :
    /\ \A i \in Entries(p, "send") :
         (~\E m \in Entries(p, "send") : m < i) =>
           ~\E d \in Entries(p, "sleep") : d < i
    /\ \A i, j \in Entries(p, "send") :
         (i < j /\ ~\E m \in Entries(p, "send") : i < m /\ m < j) =>
           /\ Cardinality({ d \in Entries(p, "sleep") : i < d /\ d < j }) = 1
           /\ \A d \in Entries(p, "sleep") :
                (i < d /\ d < j) => run[p].trace[d].ms = Delay(TargetAt(p, j))

\* The rows the lookup returned hold one for the target of send i.
RowFor(p, i) ==
  \E k \in 1..Len(run[p].rows) :
    IF run[p].event.quote.author = run[p].event.selfId
      THEN /\ run[p].rows[k].from_sid = TargetSid(TargetAt(p, i))
           /\ run[p].rows[k].from_channel_id = TargetAt(p, i).channelId
      ELSE /\ run[p].rows[k].to_sid = TargetSid(TargetAt(p, i))
           /\ run[p].rows[k].to_channel_id = TargetAt(p, i).channelId

\* member nick, else the author's nick, else the author's name.
NameOf(quote) ==
  IF quote.nick # <<>> THEN quote.nick
  ELSE IF quote.user.nick # <<>> THEN quote.user.nick ELSE quote.user.name

\* QuotedElements as the transform renders them.
QuotedRendering == <<Text(<<"@", "u2">>), Text(<<"q">>)>>

\* C7: a send for a message that is not a reply carries neither a structural
\* quote nor the textual fallback; a send for a reply carries the structural
\* quote when the rows found hold one for its target, and otherwise the
\* fallback "Re <name> [<transformed quoted content>]", target by target.
C7_QuoteOrFallback ==
  \A p \in Procs : \A i \in Entries(p, "send") :
    LET payload == run[p].trace[i].payload
    IN  IF ~HasQuote(run[p].event)
          THEN QuoteRefs(payload) = {} /\ ~HasFallback(payload)
          ELSE IF RowFor(p, i)
                 THEN /\ Cardinality({ k \in 1..Len(payload) :
                                         payload[k].type = "quote" }) = 1
                      /\ ~HasFallback(payload)
                 ELSE /\ QuoteRefs(payload) = {}
                      /\ SubSeq(payload, 1, 4) =
                           <<Text(<<"Re ">> \o NameOf(run[p].event.quote) \o <<" [">>)>>
                             \o QuotedRendering \o <<Text(<<"]\n">>)>>

\* One reply has gone to one target with a structural quote and to another
\* with the fallback.
C7_Witness ==
  \E p \in Procs : \E i, j \in Entries(p, "send") :
    /\ QuoteRefs(run[p].trace[i].payload) # {}
    /\ HasFallback(run[p].trace[j].payload)

\* The message is a reply to a message of the bot for which the table holds
\* a record.
Correlated(p) ==
  /\ HasQuote(run[p].event)
  /\ run[p].event.quote.author = run[p].event.selfId
  /\ \E k \in 1..Len(table) :
       /\ table[k].to = run[p].event.quote.id
       /\ table[k].to_sid = EventSid(p)
       /\ table[k].to_channel_id = run[p].event.channel

\* C8: on a quote-only source a send is issued only for a reply that quotes
\* the bot and whose lookup found a record; every other message is dropped
\* with no send and no record.
C8_QuoteOnly ==
  \A p \in Procs :
    (run[p].pc # "idle" /\ SConfig(run[p].rule).onlyQuote) =>
      /\ Entries(p, "send") # {} => Correlated(p) /\ run[p].rows # <<>>
      /\ ~Correlated(p) =>
           /\ run[p].pc \in {"getMessage", "dbget", "dropped"}
           /\ Entries(p, "censor") = {}
           /\ Entries(p, "send") = {}
           /\ run[p].sentRows = <<>>
           /\ NoRecordOf(run[p].n)

\* A quote-only source has forwarded a reply.
C8_Witness ==
  \E p \in Procs :
    /\ Entries(p, "send") # {}
    /\ SConfig(run[p].rule).onlyQuote

\* Nothing was done for the message: no censor call, no send, no record.
Silent(p) ==
  /\ Entries(p, "censor") = {}
  /\ Entries(p, "send") = {}
  /\ run[p].sentRows = <<>>
  /\ NoRecordOf(run[p].n)

ImageOnlyEvent(ev) ==
  /\ ev.elements # <<>>
  /\ \A i \in 1..Len(ev.elements) : ev.elements[i].type = "image"

\* C9 as stated: an image-only message causes no censor call, no send and no
\* record on any source platform.
C9_ImageOnlyIsSilent ==
  \A p \in Procs :
    (run[p].pc # "idle" /\ ImageOnlyEvent(run[p].event)) => Silent(p)

\* C9, amended: a message whose flattened text after the transform, the text
\* of the embeds of a Discord event included, is empty or only whitespace
\* causes no censor call, no send and no record.
C9_BlankTextIsSilent ==
  \A p \in Procs :
    (run[p].pc # "idle"
       /\ \A i \in 1..Len(FlatText(p)) : FlatText(p)[i] \in {" ", "\n"}) =>
      Silent(p)

\* A message of whitespace only reached the text check and was dropped there.
C9_Witness ==
  \E p \in Procs :
    /\ run[p].pc = "dropped"
    /\ FlatText(p) # <<>>
    /\ \A i \in 1..Len(FlatText(p)) : FlatText(p)[i] \in {" ", "\n"}
    /\ ~SConfig(run[p].rule).onlyQuote
    /\ ~HitsBlockingWord(run[p].event, SConfig(run[p].rule).blockingWords)

\* C10: after a send has raised, the listener still looks at every later
\* target and sends to each one found online, and no target is sent to twice.
C10_FailureContained ==
  \A p \in Procs :
    /\ \A i, j \in Entries(p, "send") :
         run[p].trace[i].index = run[p].trace[j].index => i = j
    /\ run[p].pc \in {"done", "thrown"} =>
         \A i \in Entries(p, "raise") :
           \A t \in AllTargets(p) :
             t > run[p].trace[i].index =>
               /\ t \in Examined(p)
               /\ t \in IndexesOf(p, "found") => t \in IndexesOf(p, "send")

\* A row without the id the table gave it.
Bare(row) ==
  [from |-> row.from, from_sid |-> row.from_sid, to |-> row.to,
   to_sid |-> row.to_sid, from_channel_id |-> row.from_channel_id,
   to_channel_id |-> row.to_channel_id]

\* The rows of the table that come from the message handled in slot p, in
\* table order.
RowsOf(p) ==
  LET mine(row) == row.from = run[p].event.id
      found == SelectSeq(table, mine)
  IN  [k \in 1..Len(found) |-> Bare(found[k])]

\* One record for the k-th id that the send to targetConfigs[t] returned.
RecordFor(p, t, k) ==
  [from |-> InboundId(run[p].n), from_sid |-> EventSid(p),
   to |-> SentId(run[p].n, t, k),
   to_sid |-> TargetSid(Targets(run[p])[t + 1]),
   from_channel_id |-> run[p].event.channel,
   to_channel_id |-> Targets(run[p])[t + 1].channelId]

\* One record per message id returned by the sends of slot p that succeeded.
Returned(p) ==
  UNION { { RecordFor(p, run[p].trace[i].index, k) : k \in 1..run[p].trace[i].count } :
          i \in Entries(p, "sent") }

Ended(p) == run[p].pc \in {"done", "thrown"}

\* C11: once an invocation has ended, the records it wrote are exactly one
\* per message id its successful sends returned, each with the inbound id,
\* instance and channel as source and the returned id with the target's
\* instance and channel as target; before its single upsert, issued after the
\* last target, returns, the table holds no record of it; and with no id
\* returned there is no upsert.
C11_RecordsFollowDelivery ==
  \A p \in Procs :
    /\ Ended(p) =>
         /\ { RowsOf(p)[k] : k \in 1..Len(RowsOf(p)) } = Returned(p)
         /\ Len(RowsOf(p)) = Cardinality(Returned(p))
    /\ (run[p].pc # "idle" /\ run[p].pc # "done") => NoRecordOf(run[p].n)
    /\ \A u \in Entries(p, "upsert") :
         /\ u = Len(run[p].trace)
         /\ run[p].index = Len(Targets(run[p]))
    /\ (Ended(p) /\ Returned(p) = {}) => Entries(p, "upsert") = {}

\* The positions in a rule's target list that name a defined endpoint which
\* is not disabled.
Usable(rule) ==
  { i \in 1..Len(rule.targets) :
      /\ rule.targets[i] \in DOMAIN Constants
      /\ ~Constants[rule.targets[i]].disabled }

\* The rule's source names a defined endpoint and some target is usable.
Resolves(rule) == rule.source \in DOMAIN Constants /\ Usable(rule) # {}

\* The j-th usable position of the rule, in list order.
UsableAt(rule, j) ==
  CHOOSE i \in Usable(rule) : Cardinality({ k \in Usable(rule) : k <= i }) = j

\* The row links a message of the rule's source to one of its usable targets.
RowOfRule(row, rule) ==
  /\ Resolves(rule)
  /\ row.from_sid[1] = Constants[rule.source].platform
  /\ row.from_channel_id = Constants[rule.source].channelId
  /\ \E i \in Usable(rule) :
       /\ row.to_sid = TargetSid(Constants[rule.targets[i]])
       /\ row.to_channel_id = Constants[rule.targets[i]].channelId

\* C12: a listener is registered for a rule exactly when its source key names
\* a defined endpoint and some target key names a defined endpoint that is
\* not disabled; its target list is the rule's targets without the undefined
\* and the disabled ones, in the original order; and for a rule that fails the
\* test no invocation runs, nothing is thrown, and no send or record is made.
C12_RuleResolution ==
  /\ \A r \in 1..Len(Rules) :
       /\ r \in Listeners <=> Resolves(Rules[r])
       /\ Len(TargetConfigs(Rules[r])) = Cardinality(Usable(Rules[r]))
       /\ \A j \in 1..Len(TargetConfigs(Rules[r])) :
            TargetConfigs(Rules[r])[j] =
              Constants[Rules[r].targets[UsableAt(Rules[r], j)]]
  /\ \A p \in Procs :
       run[p].pc # "idle" =>
         /\ Resolves(Rules[run[p].rule])
         /\ \A i \in Entries(p, "send") :
              run[p].trace[i].index < Cardinality(Usable(Rules[run[p].rule]))
         /\ \A k \in 1..Len(run[p].sentRows) :
              RowOfRule(run[p].sentRows[k], Rules[run[p].rule])
  /\ \A k \in 1..Len(table) :
       \E r \in 1..Len(Rules) : RowOfRule(table[k], Rules[r])

\* A message has been relayed by a rule that lists a disabled and an
\* undefined target before a usable one, to that usable target.
C12_Witness ==
  \E k \in 1..Len(table) : \E r \in 1..Len(Rules) :
    /\ RowOfRule(table[k], Rules[r])
    /\ Cardinality(Usable(Rules[r])) < Len(Rules[r].targets)
    /\ LET last == UsableAt(Rules[r], Cardinality(Usable(Rules[r])))
       IN  /\ table[k].to_channel_id = Constants[Rules[r].targets[last]].channelId
           /\ \E i \in 1..(last - 1) : i \notin Usable(Rules[r])

\* The records whose source end is the quoted message in the inbound
\* instance and channel, and those whose target end is.
BySource(p) ==
  LET hit(row) == /\ row.from = run[p].event.quote.id
                  /\ row.from_sid = EventSid(p)
                  /\ row.from_channel_id = run[p].event.channel
  IN  SelectSeq(table, hit)

ByTarget(p) ==
  LET hit(row) == /\ row.to = run[p].event.quote.id
                  /\ row.to_sid = EventSid(p)
                  /\ row.to_channel_id = run[p].event.channel
  IN  SelectSeq(table, hit)

\* The lookup of the reply handled in slot p has returned.
LookedUp(p) == Entries(p, "get") # {} /\ run[p].pc # "dbget"

QuotesBot(p) == run[p].event.quote.author = run[p].event.selfId

\* C13 as stated: a reply that quotes the bot selects the records whose
\* source end is the quoted message, any other reply those whose target end
\* is.
C13_LookupDirection ==
  \A p \in Procs :
    LookedUp(p) =>
      run[p].rows = IF QuotesBot(p) THEN BySource(p) ELSE ByTarget(p)

\* C13, amended: a reply that quotes the bot selects the records whose
\* target message id is the quoted id and whose target instance and channel
\* are the inbound ones; a reply that quotes someone else, on a source that
\* is not quote-only, selects the records whose source message id is the
\* quoted id and whose source instance and channel are the inbound ones.
C13_LookupDirectionAmended ==
  \A p \in Procs :
    LookedUp(p) =>
      /\ run[p].rows = IF QuotesBot(p) THEN ByTarget(p) ELSE BySource(p)
      /\ ~QuotesBot(p) => ~SConfig(run[p].rule).onlyQuote

\* The lookup for a reply that quotes the bot has returned records.
C13_Witness ==
  \E p \in Procs :
    /\ LookedUp(p)
    /\ QuotesBot(p)
    /\ run[p].rows # <<>>
    /\ BySource(p) = <<>>

\* The table holds a record with this source and target.
Persisted(record) == \E k \in 1..Len(table) : Bare(table[k]) = record

\* C14: every message id that a successful send returned has its record in
\* the table once the invocation has ended, whatever happened at the later
\* targets: a target skipped, a send that raised, or the textual fallback for
\* a quote whose author the event does not carry.
C14_ReturnedIdsPersisted ==
  \A p \in Procs : Ended(p) => \A record \in Returned(p) : Persisted(record)

\* The reply handled in slot p quotes a message that the bot relayed in the
\* invocation of slot q, which has sent it but not yet written its records:
\* it is in its pacing delay, in a later send or in its upsert.
Races(p, q) ==
  /\ p # q
  /\ run[p].pc # "idle"
  /\ HasQuote(run[p].event)
  /\ QuotesBot(p)
  /\ run[q].pc \in {"sleep", "send", "upsert"}
  /\ \E k \in 1..Len(run[q].sentRows) :
       /\ run[q].sentRows[k].to = run[p].event.quote.id
       /\ run[q].sentRows[k].to_sid = EventSid(p)
       /\ run[q].sentRows[k].to_channel_id = run[p].event.channel

\* C15: a reply to a relayed message whose records are not yet written finds
\* no record and, on a quote-only source as on any other, is neither dropped
\* nor makes the listener throw: each of its sends carries the textual
\* fallback.
C15_ReplyRaceFailsOpen ==
  \A p, q \in Procs :
    (Races(p, q) /\ LookedUp(p)) =>
      /\ run[p].rows = <<>>
      /\ run[p].pc \notin {"dropped", "thrown"}
      /\ \A i \in Entries(p, "send") : HasFallback(run[p].trace[i].payload)

\* The message ids the sends of slot p have returned, each with its send.
IdsReturned(p) ==
  UNION { { <<i, k>> : k \in 1..run[p].trace[i].count } : i \in Entries(p, "sent") }

\* The records slot p has created: staged, and written to the table.
Created(p) == Len(run[p].sentRows)

\* C16 as stated: an invocation fanned out to K targets creates at most K
\* records, whatever the sends return.
C16_AtMostKRecords ==
  \A p \in Procs :
    run[p].pc # "idle" =>
      /\ Created(p) <= Len(Targets(run[p]))
      /\ Len(RowsOf(p)) <= Len(Targets(run[p]))

\* C16, amended: an invocation fanned out to K targets issues at most K sends,
\* one per target at most, and creates as many records as its sends returned
\* message ids, no more; that is at most K when no send returns more than one
\* id.
C16_RecordsBoundedByIds ==
  \A p \in Procs :
    run[p].pc # "idle" =>
      /\ Cardinality(Entries(p, "send")) <= Len(Targets(run[p]))
      /\ Cardinality(IndexesOf(p, "send")) = Cardinality(Entries(p, "send"))
      /\ Created(p) <= Cardinality(IdsReturned(p))
      /\ Len(RowsOf(p)) <= Cardinality(IdsReturned(p))
      /\ (\A i \in Entries(p, "sent") : run[p].trace[i].count <= 1) =>
           Created(p) <= Len(Targets(run[p]))

\* An invocation has written more records than it has targets.
C16_Witness ==
  \E p \in Procs :
    /\ run[p].pc = "done"
    /\ Len(RowsOf(p)) > Len(Targets(run[p]))
    /\ Len(RowsOf(p)) = Cardinality(IdsReturned(p))

\* Every record of the table is still there, unchanged and in its place.
Kept == Len(table') >= Len(table) /\ SubSeq(table', 1, Len(table)) = table

\* C17: under overlapping invocations no step changes or removes a record of
\* the table, and once an invocation has ended the table holds the records it
\* staged, each once: none lost, none written twice.
C17_InsertOnly ==
  /\ [][Kept]_vars
  /\ [](\A p \in Procs : Ended(p) => RowsOf(p) = run[p].sentRows)

\* C18: whenever a send is issued to a target, the target's bot is connected
\* and online at that moment, whatever its status did while the invocation
\* was suspended.
C18_SendsOnlyToOnline ==
  \A p \in Procs : \A i \in Entries(p, "send") : run[p].trace[i].online

\* Slot p issues its send to targetConfigs[t] in this step.
Issues(p, t) ==
  /\ run[p].pc # "idle"
  /\ run'[p].n = run[p].n
  /\ t \notin IndexesOf(p, "send")
  /\ \E i \in 1..Len(run'[p].trace) :
       run'[p].trace[i].e = "send" /\ run'[p].trace[i].index = t

\* C19: of two messages that reach the listener of one rule one after the
\* other and are both sent to a target, the earlier one's send to that target
\* is issued first: no step issues the send of the earlier message when the
\* later message's send to the same target has been issued already.
C19_ArrivalOrder ==
  [][\A p, q \in Procs :
       (/\ run[p].pc # "idle"
        /\ run[q].pc # "idle"
        /\ run[p].rule = run[q].rule
        /\ run[p].n < run[q].n)
         => \A t \in IndexesOf(q, "send") : ~Issues(p, t)]_vars

====
